---- MODULE Spec2Model ----
(***************************************************************************)
(* sspngme: PNG chunk model.  ChunkType (chunk_type.rs), Chunk (chunk.rs), *)
(* the Png container (png.rs) and the encode / decode / remove commands    *)
(* (args.rs).                                                              *)
(*                                                                         *)
(* Representation.  A byte is a number in 0..255, a byte buffer a sequence *)
(* of bytes.  A u32 is a pair <<hi, lo>> of 16-bit halves (its value is    *)
(* hi * 65536 + lo): the model checker's integers are 32-bit signed, so    *)
(* the full u32 range does not fit in one of them.  A Rust str / String is *)
(* the sequence of its UTF-8 bytes.  A Result is a record [tag, val] with  *)
(* tag "Ok", "Err" or "Panic" (an unwrap on Err: the process aborts).      *)
(***************************************************************************)
EXTENDS Integers, Sequences, FiniteSets, TLC

VARIABLES op, arg, ret, chunks, before, file

vars == <<op, arg, ret, chunks, before, file>>

(***************************************************************************)
(* Bounds of the model.                                                    *)
(***************************************************************************)
MaxStrLen == 4
MaxDataLen == 2
MaxChunks == 2

(***************************************************************************)
(* Results.                                                                *)
(***************************************************************************)
Ok(v) == [tag |-> "Ok", val |-> v]
Err(e) == [tag |-> "Err", val |-> e]
Panic == [tag |-> "Panic", val |-> "unwrap on Err"]
None == [tag |-> "None", val |-> "None"]
Some(v) == [tag |-> "Some", val |-> v]
\* the value of an operation that has no error path
Value(v) == [tag |-> "Value", val |-> v]

IsOk(r) == r.tag = "Ok"
IsErr(r, e) == r.tag = "Err" /\ r.val = e

(***************************************************************************)
(* Bytes and bits.                                                         *)
(***************************************************************************)
Byte == 0..255

RECURSIVE BitXor(_, _)
BitXor(a, b) ==
    IF a = 0 THEN b
    ELSE IF b = 0 THEN a
    ELSE (((a % 2) + (b % 2)) % 2) + 2 * BitXor(a \div 2, b \div 2)

\* bit k (0 = least significant) of the number b
Bit(b, k) == (b \div (2 ^ k)) % 2

\* the buffer with bit k of its i-th byte inverted
FlipBit(buf, i, k) == [buf EXCEPT ![i] = BitXor(buf[i], 2 ^ k)]

RECURSIVE Concat(_)
Concat(ss) == IF ss = <<>> THEN <<>> ELSE Head(ss) \o Concat(Tail(ss))

\* all sequences over S of length 0..n
SeqsUpTo(S, n) == UNION {[1..k -> S] : k \in 0..n}

(***************************************************************************)
(* u32 as <<hi, lo>>.                                                      *)
(***************************************************************************)
\* usize -> u32 (as u32: the low 32 bits)
as_u32(n) == <<(n \div 65536) % 65536, n % 65536>>

\* the bytes in little-endian order (u32::to_le_bytes)
to_le_bytes(u) == <<u[2] % 256, u[2] \div 256, u[1] % 256, u[1] \div 256>>
\* u32::to_be_bytes
to_be_bytes(u) == <<u[1] \div 256, u[1] % 256, u[2] \div 256, u[2] % 256>>

\* u32::from_be_bytes
from_be_bytes(b) == <<(b[1] * 256) + b[2], (b[3] * 256) + b[4]>>

\* u <= n for a u32 u and a (small) natural n, without forming the value of u
U32LeNat(u, n) ==
    \/ u[1] < n \div 65536
    \/ u[1] = n \div 65536 /\ u[2] <= n % 65536

\* u32 -> usize (as usize), used only where the value is known to be small
as_usize(u) == (u[1] * 65536) + u[2]

XorU32(u, v) == <<BitXor(u[1], v[1]), BitXor(u[2], v[2])>>
Shr1(u) == <<u[1] \div 2, ((u[1] % 2) * 32768) + (u[2] \div 2)>>
Shr8(u) == <<u[1] \div 256, ((u[1] % 256) * 256) + (u[2] \div 256)>>

(***************************************************************************)
(* CRC-32/ISO-HDLC as the crc crate computes it: reflected, polynomial     *)
(* 0x04C11DB7 (reversed 0xEDB88320), init 0xFFFFFFFF, xorout 0xFFFFFFFF,   *)
(* one table lookup per input byte.                                        *)
(***************************************************************************)
PolyReflected == <<60856, 33568>>
AllOnes == <<65535, 65535>>

CrcShift(u) == IF u[2] % 2 = 1 THEN XorU32(Shr1(u), PolyReflected) ELSE Shr1(u)

RECURSIVE CrcShiftN(_, _)
CrcShiftN(u, n) == IF n = 0 THEN u ELSE CrcShiftN(CrcShift(u), n - 1)

CrcTable == [i \in Byte |-> CrcShiftN(<<0, i>>, 8)]

U32 == (0..65535) \X (0..65535)

\* one table step.  A function, so that its argument is a value when the
\* step is taken and a long input does not nest the evaluation.
CrcUpdate ==
    [crc \in U32, byte \in Byte |->
        LET entry == CrcTable[BitXor(crc[2] % 256, byte)]
        IN  XorU32(entry, Shr8(crc))]

\* the register after the first n bytes of the input, starting from crc
RECURSIVE CrcFold(_, _, _)
CrcFold(crc, input, n) ==
    IF n = 0 THEN crc ELSE CrcUpdate[CrcFold(crc, input, n - 1), input[n]]

\* Crc::checksum
checksum(input) == XorU32(CrcFold(AllOnes, input, Len(input)), AllOnes)

(***************************************************************************)
(* UTF-8 (core::str::from_utf8, str::chars, str::as_bytes).                *)
(***************************************************************************)
Cont(b) == b \in 128..191

\* the range the second byte of a multi-byte sequence must lie in
SecondRange(b) ==
    IF b = 224 THEN 160..191
    ELSE IF b = 237 THEN 128..159
    ELSE IF b = 240 THEN 144..191
    ELSE IF b = 244 THEN 128..143
    ELSE 128..191

\* number of bytes of the sequence a leading byte starts, 0 for no leading byte
Utf8Width(b) ==
    IF b < 128 THEN 1
    ELSE IF b \in 194..223 THEN 2
    ELSE IF b \in 224..239 THEN 3
    ELSE IF b \in 240..244 THEN 4
    ELSE 0

RECURSIVE Utf8Valid(_)
Utf8Valid(s) ==
    IF s = <<>> THEN TRUE
    ELSE LET w == Utf8Width(s[1]) IN
         /\ w > 0
         /\ Len(s) >= w
         /\ w >= 2 => s[2] \in SecondRange(s[1])
         /\ \A i \in 3..w : Cont(s[i])
         /\ Utf8Valid(SubSeq(s, w + 1, Len(s)))

\* the bytes of one char
Utf8EncodeChar(c) ==
    IF c < 128 THEN <<c>>
    ELSE IF c < 2048 THEN <<192 + (c \div 64), 128 + (c % 64)>>
    ELSE IF c < 65536
         THEN <<224 + (c \div 4096), 128 + ((c \div 64) % 64), 128 + (c % 64)>>
    ELSE <<240 + (c \div 262144), 128 + ((c \div 4096) % 64),
           128 + ((c \div 64) % 64), 128 + (c % 64)>>

\* the str holding the chars cs
RECURSIVE Utf8Encode(_)
Utf8Encode(cs) ==
    IF cs = <<>> THEN <<>> ELSE Utf8EncodeChar(Head(cs)) \o Utf8Encode(Tail(cs))

\* str::chars: the chars of a str (valid UTF-8)
RECURSIVE Utf8Chars(_)
Utf8Chars(s) ==
    IF s = <<>> THEN <<>>
    ELSE LET w == Utf8Width(s[1])
             c == IF w = 1 THEN s[1]
                  ELSE IF w = 2 THEN ((s[1] % 32) * 64) + (s[2] % 64)
                  ELSE IF w = 3
                       THEN ((s[1] % 16) * 4096) + ((s[2] % 64) * 64) + (s[3] % 64)
                  ELSE ((s[1] % 8) * 262144) + ((s[2] % 64) * 4096)
                       + ((s[3] % 64) * 64) + (s[4] % 64)
         IN  <<c>> \o Utf8Chars(SubSeq(s, w + 1, Len(s)))

\* [u8]::is_ascii and str::is_ascii
is_ascii(s) == \A i \in 1..Len(s) : s[i] < 128

is_ascii_uppercase(b) == b \in 65..90
is_ascii_lowercase(b) == b \in 97..122
is_ascii_digit(c) == c \in 48..57

(***************************************************************************)
(* ChunkType (chunk_type.rs).                                              *)
(***************************************************************************)
ChunkType_new(chunk_type) == [chunk_type |-> chunk_type]

bytes(self) == self.chunk_type

\* the flag read from the second byte
is_critical_of_second_byte(self) == is_ascii_uppercase(bytes(self)[2])
is_critical(self) == is_ascii_uppercase(bytes(self)[1])
is_public(self) == is_ascii_uppercase(bytes(self)[2])
is_reserved_bit_valid(self) == is_ascii_uppercase(bytes(self)[3])
is_safe_to_copy(self) == is_ascii_lowercase(bytes(self)[4])
is_valid(self) == is_ascii(self.chunk_type) /\ is_reserved_bit_valid(self)

\* impl TryFrom<[u8; 4]> for ChunkType
ChunkType_try_from(value) ==
    IF ~is_ascii(value) THEN Err("InvalidASCII") ELSE Ok(ChunkType_new(value))

\* <&[u8] as Read>::read into a 4-byte buffer: copies what fits
read_into(buf, src) ==
    [i \in 1..Len(buf) |-> IF i <= Len(src) THEN src[i] ELSE buf[i]]

\* from_str with the length tested before the ASCII check
from_str_length_first(s) ==
    IF Len(s) # 4 THEN Err("InvalidLength")
    ELSE IF ~is_ascii(s) THEN Err("InvalidASCII")
    ELSE IF is_ascii_digit(Utf8Chars(s)[3]) THEN Err("InvalidChar")
    ELSE Ok(ChunkType_new(read_into(<<0, 0, 0, 0>>, s)))

\* impl FromStr for ChunkType
from_str(s) ==
    IF ~is_ascii(s) THEN Err("InvalidASCII")
    ELSE IF Len(s) # 4 THEN Err("InvalidLength")
    ELSE LET cs == Utf8Chars(s) IN
         IF Len(cs) < 3 THEN Panic
         ELSE IF is_ascii_digit(cs[3]) THEN Err("InvalidChar")
         ELSE Ok(ChunkType_new(read_into(<<0, 0, 0, 0>>, s)))

\* impl Display for ChunkType (to_string): from_utf8(..).unwrap()
ChunkType_to_string(self) ==
    IF Utf8Valid(self.chunk_type) THEN Ok(self.chunk_type) ELSE Panic

(***************************************************************************)
(* Chunk (chunk.rs).                                                       *)
(***************************************************************************)
\* a chunk whose crc covers the data alone
Chunk_new_crc_of_data(chunk_type, data) ==
    [length |-> as_u32(Len(data)), chunk_type |-> chunk_type, data |-> data,
     crc |-> checksum(data)]

\* Chunk::new
Chunk_new(chunk_type, data) ==
    [length |-> as_u32(Len(data)), chunk_type |-> chunk_type, data |-> data,
     crc |-> checksum(bytes(chunk_type) \o data)]

data_as_string(self) ==
    IF Utf8Valid(self.data) THEN Ok(self.data) ELSE Err("FromUtf8Error")

\* Chunk::as_bytes
as_bytes(self) ==
    to_be_bytes(self.length) \o bytes(self.chunk_type) \o self.data
        \o to_be_bytes(self.crc)

\* Cursor::read_exact of n bytes (n a u32) at offset pos of value
read_exact(value, pos, n) ==
    IF U32LeNat(n, Len(value) - pos)
    THEN Ok(SubSeq(value, pos + 1, pos + as_usize(n)))
    ELSE Err("UnexpectedEof")

\* a read of the stored crc that zero-fills what the input does not hold
read_crc_zero_fill(value, pos) ==
    Ok([i \in 1..4 |-> IF pos + i <= Len(value) THEN value[pos + i] ELSE 0])

\* the read of the stored crc
read_crc(value, pos) == read_exact(value, pos, <<0, 4>>)

\* a gate that lets every stored crc pass
crc_never_mismatch(crc, datae) == FALSE

\* the CRC gate of try_from: crc != CHECKSUM_ALG.checksum(&datae)
crc_mismatch(crc, datae) == crc # checksum(datae)

\* impl TryFrom<&[u8]> for Chunk
Chunk_try_from(value) ==
    LET r1 == read_exact(value, 0, <<0, 4>>) IN
    IF ~IsOk(r1) THEN r1 ELSE
    LET length == from_be_bytes(r1.val)
        r2 == read_exact(value, 4, <<0, 4>>) IN
    IF ~IsOk(r2) THEN r2 ELSE
    LET chunk_type == ChunkType_new(r2.val)
        r3 == read_exact(value, 8, length) IN
    IF ~IsOk(r3) THEN r3 ELSE
    LET data == r3.val
        r4 == read_crc(value, 8 + Len(data)) IN
    IF ~IsOk(r4) THEN r4 ELSE
    LET crc == from_be_bytes(r4.val) IN
    IF crc_mismatch(crc, bytes(chunk_type) \o data) THEN Err("InvalidCRC")
    ELSE Ok([length |-> length, chunk_type |-> chunk_type, data |-> data,
             crc |-> crc])

(***************************************************************************)
(* Inputs.                                                                 *)
(***************************************************************************)
\* "RuSt", "ruSt", and four bytes that are not UTF-8 (0xFF is never valid)
RuSt == <<82, 117, 83, 116>>
ruSt == <<114, 117, 83, 116>>
NotUtf8Type == <<255, 117, 83, 116>>

\* the payload of the tests of chunk.rs
TestMessage ==
    <<84, 104, 105, 115, 32, 105, 115, 32, 119, 104, 101, 114, 101, 32, 121,
      111, 117, 114, 32, 115, 101, 99, 114, 101, 116, 32, 109, 101, 115, 115,
      97, 103, 101, 32, 119, 105, 108, 108, 32, 98, 101, 33>>

\* chars a type string is drawn from: R S u t, the digit 1, e-acute
TypeChars == {82, 83, 117, 116, 49, 233}
TypeCharSeqs == SeqsUpTo(TypeChars, MaxStrLen)

\* four-byte arrays: a base with one byte replaced by any byte
FourBytes ==
    {[base EXCEPT ![p] = b] : base \in {RuSt, <<195, 169, 83, 116>>},
                              p \in 1..4, b \in Byte}

ChunkTypes == {ChunkType_new(RuSt), ChunkType_new(ruSt), ChunkType_new(NotUtf8Type)}
DataBytes == {0, 104, 255}
Datas == SeqsUpTo(DataBytes, MaxDataLen) \cup {TestMessage}

(***************************************************************************)
(* ChunkType operations.  The initial state holds the input, a step        *)
(* applies one operation to it.                                            *)
(***************************************************************************)
Idle == UNCHANGED <<chunks, before, file>>

TypeInputs ==
    {[kind |-> "bytes", b |-> b] : b \in FourBytes}
        \cup {[kind |-> "str", chars |-> cs, s |-> Utf8Encode(cs)] : cs \in TypeCharSeqs}

TypeNew ==
    /\ op = "start" /\ arg.kind = "bytes"
    /\ op' = "ChunkType::new"
    /\ ret' = LET t == ChunkType_new(arg.b) IN
              Value([bytes |-> bytes(t),
                     is_valid |-> is_valid(t),
                     is_critical |-> is_critical(t),
                     is_public |-> is_public(t),
                     is_reserved_bit_valid |-> is_reserved_bit_valid(t),
                     is_safe_to_copy |-> is_safe_to_copy(t)])
    /\ UNCHANGED arg
    /\ Idle

TypeTryFrom ==
    /\ op = "start" /\ arg.kind = "bytes"
    /\ op' = "ChunkType::try_from"
    /\ ret' = ChunkType_try_from(arg.b)
    /\ UNCHANGED arg
    /\ Idle

TypeFromStr ==
    /\ op = "start" /\ arg.kind = "str"
    /\ op' = "ChunkType::from_str"
    /\ ret' = from_str(arg.s)
    /\ UNCHANGED arg
    /\ Idle

TypeToString ==
    /\ op = "start" /\ arg.kind = "bytes"
    /\ op' = "ChunkType::to_string"
    /\ ret' = ChunkType_to_string(ChunkType_new(arg.b))
    /\ UNCHANGED arg
    /\ Idle

InitType ==
    /\ op = "start"
    /\ arg \in TypeInputs
    /\ ret = None
    /\ chunks = <<>>
    /\ before = <<>>
    /\ file = <<>>

NextType ==
    \/ TypeNew
    \/ TypeTryFrom
    \/ TypeFromStr
    \/ TypeToString

SpecType == InitType /\ [][NextType]_vars

(***************************************************************************)
(* Chunk operations.  The initial state holds a type and a payload; the    *)
(* steps construct the chunk, serialize it, parse what was serialized (as  *)
(* it is, with one bit inverted, cut short, or with a byte after it), and  *)
(* read a chunk that was constructed or parsed.                            *)
(***************************************************************************)
HoldsChunk ==
    \/ op = "Chunk::new"
    \/ op = "Chunk::try_from" /\ IsOk(ret)

ChunkNew ==
    /\ op = "start"
    /\ op' = "Chunk::new"
    /\ ret' = Value(Chunk_new(arg.chunk_type, arg.data))
    /\ UNCHANGED arg
    /\ Idle

ChunkAsBytes ==
    /\ HoldsChunk
    /\ op' = "Chunk::as_bytes"
    /\ arg' = ret.val
    /\ ret' = Value(as_bytes(ret.val))
    /\ Idle

\* try_from on value, which was made from the serialization of arg
ChunkTryFrom(value, mutation) ==
    /\ op' = "Chunk::try_from"
    /\ arg' = [value |-> value, origin |-> arg, mutation |-> mutation]
    /\ ret' = Chunk_try_from(value)
    /\ Idle

ParseSerialized ==
    /\ op = "Chunk::as_bytes"
    /\ ChunkTryFrom(ret.val, [kind |-> "none", i |-> 0, k |-> 0])

ParseBitFlipped ==
    /\ op = "Chunk::as_bytes"
    /\ \E i \in 1..Len(ret.val), k \in 0..7 :
          ChunkTryFrom(FlipBit(ret.val, i, k), [kind |-> "flip", i |-> i, k |-> k])

ParseTruncated ==
    /\ op = "Chunk::as_bytes"
    /\ \E n \in 0..(Len(ret.val) - 1) :
          ChunkTryFrom(SubSeq(ret.val, 1, n), [kind |-> "cut", i |-> n, k |-> 0])

ParseWithTrailing ==
    /\ op = "Chunk::as_bytes"
    /\ \E b \in DataBytes :
          ChunkTryFrom(ret.val \o <<b>>, [kind |-> "trailing", i |-> b, k |-> 0])

ChunkTypeToString ==
    /\ HoldsChunk
    /\ op' = "Chunk::chunk_type::to_string"
    /\ arg' = ret.val
    /\ ret' = ChunkType_to_string(ret.val.chunk_type)
    /\ Idle

ChunkDataAsString ==
    /\ HoldsChunk
    /\ op' = "Chunk::data_as_string"
    /\ arg' = ret.val
    /\ ret' = data_as_string(ret.val)
    /\ Idle

InitChunk ==
    /\ op = "start"
    /\ arg \in {[chunk_type |-> t, data |-> d] : t \in ChunkTypes, d \in Datas}
    /\ ret = None
    /\ chunks = <<>>
    /\ before = <<>>
    /\ file = <<>>

NextChunk ==
    \/ ChunkNew
    \/ ChunkAsBytes
    \/ ParseSerialized
    \/ ParseBitFlipped
    \/ ParseTruncated
    \/ ParseWithTrailing
    \/ ChunkTypeToString
    \/ ChunkDataAsString

SpecChunk == InitChunk /\ [][NextChunk]_vars

(***************************************************************************)
(* Png (png.rs): an ordered sequence of chunks behind the 8-byte           *)
(* signature.  Lookup and removal compare the string form of each chunk's  *)
(* type (ChunkType's Display) with the given type string, first to last.   *)
(***************************************************************************)
STANDARD_HEADER == <<137, 80, 78, 71, 13, 10, 26, 10>>

\* the chunks of the bytes after the signature: parse one, step over its
\* 12 + length bytes, until nothing is left; the first failure ends it
RECURSIVE ParseChunks(_)
ParseChunks(rest) ==
    IF rest = <<>> THEN Ok(<<>>)
    ELSE LET first == Chunk_try_from(rest) IN
         IF ~IsOk(first) THEN first
         ELSE LET more == ParseChunks(SubSeq(rest, 13 + Len(first.val.data), Len(rest))) IN
              IF ~IsOk(more) THEN more ELSE Ok(<<first.val>> \o more.val)

\* impl TryFrom<&[u8]> for Png
Png_try_from(value) ==
    IF Len(value) < 8 \/ SubSeq(value, 1, 8) # STANDARD_HEADER
    THEN Err("InvalidSignature")
    ELSE ParseChunks(SubSeq(value, 9, Len(value)))

\* Png::as_bytes
Png_as_bytes(cs) ==
    STANDARD_HEADER \o Concat([i \in 1..Len(cs) |-> as_bytes(cs[i])])

\* Png::append_chunk
append_chunk(cs, chunk) == Append(cs, chunk)

\* the index of the first chunk from i on whose type renders as type_str
RECURSIVE position(_, _, _)
position(cs, type_str, i) ==
    IF i > Len(cs) THEN None
    ELSE LET rendered == ChunkType_to_string(cs[i].chunk_type) IN
         IF rendered.tag = "Panic" THEN Panic
         ELSE IF rendered.val = type_str THEN Some(i)
         ELSE position(cs, type_str, i + 1)

\* Png::chunk_by_type
chunk_by_type(cs, type_str) ==
    LET found == position(cs, type_str, 1) IN
    IF found.tag = "Some" THEN Some(cs[found.val]) ELSE found

RemoveAt(cs, i) == SubSeq(cs, 1, i - 1) \o SubSeq(cs, i + 1, Len(cs))

\* Png::remove_chunk: the result, and the chunks the Png holds afterwards
remove_chunk(cs, type_str) ==
    LET found == position(cs, type_str, 1) IN
    IF found.tag = "Some"
    THEN [ret |-> Ok(cs[found.val]), chunks |-> RemoveAt(cs, found.val)]
    ELSE IF found.tag = "Panic" THEN [ret |-> Panic, chunks |-> cs]
    ELSE [ret |-> Err("ChunkNotFound"), chunks |-> cs]

(***************************************************************************)
(* Png operations.  The initial state holds the bytes of a file; the first *)
(* step parses them.  While the process holds a Png it appends, looks up,  *)
(* removes, serializes, and parses what it serialized.  A panic ends it.   *)
(***************************************************************************)
\* the last chunk of every PNG file: type "IEND", no data
IEND == Chunk_new(ChunkType_new(<<73, 69, 78, 68>>), <<>>)
\* a chunk whose type bytes are not UTF-8; its checksum is right
NotUtf8Chunk == Chunk_new(ChunkType_new(NotUtf8Type), <<104, 105>>)

InputFiles ==
    { STANDARD_HEADER,
      STANDARD_HEADER \o as_bytes(IEND),
      STANDARD_HEADER \o as_bytes(NotUtf8Chunk),
      STANDARD_HEADER \o as_bytes(NotUtf8Chunk) \o as_bytes(IEND),
      \* the signature with its first byte wrong
      <<136, 80, 78, 71, 13, 10, 26, 10>> \o as_bytes(IEND),
      \* a file cut inside its last chunk
      STANDARD_HEADER \o SubSeq(as_bytes(IEND), 1, 11),
      \* a file whose chunk has a wrong crc
      STANDARD_HEADER \o FlipBit(as_bytes(IEND), 12, 0) }

TypeStrs == {RuSt, ruSt}
PngDatas == SeqsUpTo({104, 255}, 1)

ParsedFile == "Png::try_from(file)"
ParsedSerialized == "Png::try_from(as_bytes)"

HoldsPng ==
    /\ op # "start"
    /\ ret.tag # "Panic"
    /\ ~(op \in {ParsedFile, ParsedSerialized} /\ ~IsOk(ret))

PngTryFrom(name, value) ==
    /\ op' = name
    /\ arg' = value
    /\ ret' = Png_try_from(value)
    /\ before' = chunks
    /\ chunks' = IF IsOk(ret') THEN ret'.val ELSE chunks
    /\ UNCHANGED file

PngParseFile ==
    /\ op = "start"
    /\ PngTryFrom(ParsedFile, file)

PngAppendChunk(chunk) ==
    /\ HoldsPng
    /\ Len(chunks) < MaxChunks
    /\ op' = "Png::append_chunk"
    /\ arg' = chunk
    /\ ret' = Value(<<>>)
    /\ before' = chunks
    /\ chunks' = append_chunk(chunks, chunk)
    /\ UNCHANGED file

PngChunkByType(type_str) ==
    /\ HoldsPng
    /\ op' = "Png::chunk_by_type"
    /\ arg' = type_str
    /\ ret' = chunk_by_type(chunks, type_str)
    /\ before' = chunks
    /\ UNCHANGED <<chunks, file>>

PngRemoveChunk(type_str) ==
    /\ HoldsPng
    /\ op' = "Png::remove_chunk"
    /\ arg' = type_str
    /\ ret' = remove_chunk(chunks, type_str).ret
    /\ before' = chunks
    /\ chunks' = remove_chunk(chunks, type_str).chunks
    /\ UNCHANGED file

PngAsBytes ==
    /\ HoldsPng
    /\ op' = "Png::as_bytes"
    /\ arg' = chunks
    /\ ret' = Value(Png_as_bytes(chunks))
    /\ before' = chunks
    /\ UNCHANGED <<chunks, file>>

PngParseSerialized ==
    /\ op = "Png::as_bytes"
    /\ PngTryFrom(ParsedSerialized, ret.val)

Init ==
    /\ op = "start"
    /\ arg = <<>>
    /\ ret = None
    /\ chunks = <<>>
    /\ before = <<>>
    /\ file \in InputFiles

Next ==
    \/ PngParseFile
    \/ \E t \in ChunkTypes, d \in PngDatas : PngAppendChunk(Chunk_new(t, d))
    \/ \E t \in TypeStrs : PngChunkByType(t)
    \/ \E t \in TypeStrs : PngRemoveChunk(t)
    \/ PngAsBytes
    \/ PngParseSerialized

Spec == Init /\ [][Next]_vars

(***************************************************************************)
(* The commands (args.rs), each a run of the program on the PNG file.      *)
(* encode and remove work on a copy of the file and put it in the file's   *)
(* place when every step succeeded; decode reads the file.                 *)
(***************************************************************************)
\* File::write_all at offset 0 of a file holding old
write_at_start(old, new) == new \o SubSeq(old, Len(new) + 1, Len(old))

\* encode: the result, and the bytes the file holds afterwards
encode(data, chunk_type, payload) ==
    LET png == Png_try_from(data) IN
    IF ~IsOk(png) THEN [ret |-> png, file |-> data] ELSE
    LET parsed_type == from_str(chunk_type) IN
    IF ~IsOk(parsed_type) THEN [ret |-> parsed_type, file |-> data] ELSE
    LET chunk == Chunk_new(parsed_type.val, payload)
        appended == append_chunk(png.val, chunk)
    IN  [ret |-> Ok(<<>>), file |-> write_at_start(data, Png_as_bytes(appended))]

\* decode: Ok(Some(message)) when the chunk was found and printed, Ok(None)
\* when the command reported that no chunk has the type
decode(data, chunk_type) ==
    LET png == Png_try_from(data) IN
    IF ~IsOk(png) THEN png ELSE
    LET found == chunk_by_type(png.val, chunk_type) IN
    IF found.tag = "Panic" THEN Panic
    ELSE IF found.tag = "None" THEN Ok(None)
    ELSE LET message == data_as_string(found.val) IN
         IF ~IsOk(message) THEN message ELSE Ok(Some(message.val))

\* remove: the result, and the bytes the file holds afterwards
remove(data, chunk_type) ==
    LET png == Png_try_from(data) IN
    IF ~IsOk(png) THEN [ret |-> png, file |-> data] ELSE
    LET removed == remove_chunk(png.val, chunk_type) IN
    IF ~IsOk(removed.ret) THEN [ret |-> removed.ret, file |-> data]
    ELSE [ret |-> Ok(<<>>), file |-> Png_as_bytes(removed.chunks)]

\* type strings given on the command line: "RuSt", "ruSt", "Ru1t", "IEND"
EncodeTypeStrs == {RuSt, ruSt, <<82, 117, 49, 116>>}
LookupTypeStrs == EncodeTypeStrs \cup {<<73, 69, 78, 68>>}
\* payloads: "", "hi", e-acute
Payloads == {<<>>, <<104, 105>>, <<195, 169>>}

\* the number of chunks of a file that parses, 0 of one that does not
ChunkCount(data) ==
    LET png == Png_try_from(data) IN IF IsOk(png) THEN Len(png.val) ELSE 0

CmdEncode(chunk_type, payload) ==
    /\ ChunkCount(file) < MaxChunks
    /\ op' = "encode"
    /\ arg' = [chunk_type |-> chunk_type, payload |-> payload]
    /\ ret' = encode(file, chunk_type, payload).ret
    /\ file' = encode(file, chunk_type, payload).file
    /\ UNCHANGED <<chunks, before>>

CmdDecode(chunk_type) ==
    /\ op' = "decode"
    /\ arg' = [chunk_type |-> chunk_type, payload |-> <<>>]
    /\ ret' = decode(file, chunk_type)
    /\ UNCHANGED <<chunks, before, file>>

CmdRemove(chunk_type) ==
    /\ op' = "remove"
    /\ arg' = [chunk_type |-> chunk_type, payload |-> <<>>]
    /\ ret' = remove(file, chunk_type).ret
    /\ file' = remove(file, chunk_type).file
    /\ UNCHANGED <<chunks, before>>

InitCli == Init

NextCli ==
    \/ \E t \in EncodeTypeStrs, m \in Payloads : CmdEncode(t, m)
    \/ \E t \in LookupTypeStrs : CmdDecode(t)
    \/ \E t \in LookupTypeStrs : CmdRemove(t)

SpecCli == InitCli /\ [][NextCli]_vars

(***************************************************************************)
(* The file swap of encode and remove (args.rs, main.rs), one file-system  *)
(* call at a time.  The file system holds the file at the given path and   *)
(* the file at "<path>.temp".  op is the call that ran last and ret its    *)
(* result; arg holds the command line and the one call that fails in this  *)
(* run, if any.  The process ends in main: after an Err from the command   *)
(* main deletes the temp file; a panic ends the process where it happens.  *)
(***************************************************************************)
Absent == [exists |-> FALSE, bytes |-> <<>>]
Present(b) == [exists |-> TRUE, bytes |-> b]

\* what a write that fails may have put on disk: nothing, or half of it
Partial(b) == {<<>>, SubSeq(b, 1, Len(b) \div 2)}

\* the file-system calls of encode and remove, in the order of the code
FsCalls ==
    {"File::create", "fs::copy", "open", "read_to_end", "set_len", "seek",
     "write_all", "remove_file", "rename"}

\* File::create given the path of the original file
File_create_file_name(fs) == [fs EXCEPT !.original = Present(<<>>)]

\* std::fs::File::create(&temp_file_path): creates or truncates
File_create(fs) == [fs EXCEPT !.temp = Present(<<>>)]

\* std::fs::copy(file_name, &temp_file_path)
fs_copy(fs) == [fs EXCEPT !.temp = Present(fs.original.bytes)]

\* file.set_len(0) on the handle of the temp file
set_len_0(fs) == [fs EXCEPT !.temp = Present(<<>>)]

\* file.write_all(..) at offset 0 of the temp file
write_all(fs, buf) == [fs EXCEPT !.temp = Present(write_at_start(fs.temp.bytes, buf))]

\* std::fs::remove_file(file_name)
remove_file(fs) == [fs EXCEPT !.original = Absent]

\* std::fs::rename(&temp_file_path, file_name)
rename(fs) == [original |-> fs.temp, temp |-> Absent]

\* encode between read_to_end and seek: the result, and the Png in memory
encode_core(data, chunk_type, payload) ==
    LET png == Png_try_from(data) IN
    IF ~IsOk(png) THEN [ret |-> png, chunks |-> <<>>] ELSE
    LET parsed_type == from_str(chunk_type) IN
    IF ~IsOk(parsed_type) THEN [ret |-> parsed_type, chunks |-> png.val] ELSE
    [ret |-> Ok(<<>>),
     chunks |-> append_chunk(png.val, Chunk_new(parsed_type.val, payload))]

\* remove between read_to_end and set_len: the result, and the Png in memory
remove_core(data, chunk_type) ==
    LET png == Png_try_from(data) IN
    IF ~IsOk(png) THEN [ret |-> png, chunks |-> <<>>] ELSE
    LET removed == remove_chunk(png.val, chunk_type) IN
    [ret |-> IF IsOk(removed.ret) THEN Ok(<<>>) ELSE removed.ret,
     chunks |-> removed.chunks]

IoError == Err("Io")
Fails(call) == arg.fails = call
After(call) == op = call /\ IsOk(ret)

FsCreate ==
    /\ op = "start"
    /\ op' = "File::create"
    /\ IF Fails("File::create")
       THEN ret' = IoError /\ file' = file
       ELSE ret' = Ok(<<>>) /\ file' = File_create(file)
    /\ UNCHANGED <<arg, chunks, before>>

FsCopy ==
    /\ After("File::create")
    /\ op' = "fs::copy"
    /\ IF Fails("fs::copy")
       THEN /\ ret' = IoError
            /\ \E b \in Partial(file.original.bytes) :
                   file' = [file EXCEPT !.temp = Present(b)]
       ELSE ret' = Ok(<<>>) /\ file' = fs_copy(file)
    /\ UNCHANGED <<arg, chunks, before>>

FsOpen ==
    /\ After("fs::copy")
    /\ op' = "open"
    /\ ret' = IF Fails("open") THEN IoError ELSE Ok(<<>>)
    /\ UNCHANGED <<arg, chunks, before, file>>

\* file.read_to_end(&mut data): Ok holds data
FsReadToEnd ==
    /\ After("open")
    /\ op' = "read_to_end"
    /\ ret' = IF Fails("read_to_end") THEN IoError ELSE Ok(file.temp.bytes)
    /\ UNCHANGED <<arg, chunks, before, file>>

\* Png::try_from, then from_str, Chunk::new and append_chunk, or remove_chunk
Core ==
    /\ After("read_to_end")
    /\ op' = "core"
    /\ LET done == IF arg.command = "encode"
                   THEN encode_core(ret.val, arg.chunk_type, arg.payload)
                   ELSE remove_core(ret.val, arg.chunk_type)
       IN  ret' = done.ret /\ chunks' = done.chunks
    /\ UNCHANGED <<arg, before, file>>

FsSetLen ==
    /\ After("core")
    /\ arg.command = "remove"
    /\ op' = "set_len"
    /\ IF Fails("set_len")
       THEN ret' = IoError /\ file' = file
       ELSE ret' = Ok(<<>>) /\ file' = set_len_0(file)
    /\ UNCHANGED <<arg, chunks, before>>

FsSeek ==
    /\ \/ After("core") /\ arg.command = "encode"
       \/ After("set_len")
    /\ op' = "seek"
    /\ ret' = IF Fails("seek") THEN IoError ELSE Ok(<<>>)
    /\ UNCHANGED <<arg, chunks, before, file>>

FsWriteAll ==
    /\ After("seek")
    /\ op' = "write_all"
    /\ IF Fails("write_all")
       THEN /\ ret' = IoError
            /\ \E b \in Partial(Png_as_bytes(chunks)) : file' = write_all(file, b)
       ELSE ret' = Ok(<<>>) /\ file' = write_all(file, Png_as_bytes(chunks))
    /\ UNCHANGED <<arg, chunks, before>>

FsRemoveFile ==
    /\ After("write_all")
    /\ op' = "remove_file"
    /\ IF Fails("remove_file")
       THEN ret' = IoError /\ file' = file
       ELSE ret' = Ok(<<>>) /\ file' = remove_file(file)
    /\ UNCHANGED <<arg, chunks, before>>

FsRename ==
    /\ After("remove_file")
    /\ op' = "rename"
    /\ IF Fails("rename")
       THEN ret' = IoError /\ file' = file
       ELSE ret' = Ok(<<>>) /\ file' = rename(file)
    /\ UNCHANGED <<arg, chunks, before>>

\* main after the command returned: on Err it deletes the temp file, and
\* fails itself when there is none to delete
main_cleanup(fs, result) ==
    IF result.tag # "Err" THEN [ret |-> Ok(<<>>), file |-> fs]
    ELSE IF fs.temp.exists
         THEN [ret |-> Ok(<<>>), file |-> [fs EXCEPT !.temp = Absent]]
         ELSE [ret |-> IoError, file |-> fs]

\* ret holds the result of the command and the result of main
MainExit ==
    /\ op \in FsCalls \cup {"core"}
    /\ ret.tag = "Err" \/ After("rename")
    /\ op' = "exit"
    /\ ret' = Value([command |-> ret, main |-> main_cleanup(file, ret).ret])
    /\ file' = main_cleanup(file, ret).file
    /\ UNCHANGED <<arg, chunks, before>>

\* a panic in the core unwinds out of main: nothing is cleaned up
Abort ==
    /\ op = "core"
    /\ ret.tag = "Panic"
    /\ op' = "exit"
    /\ ret' = Value([command |-> Panic, main |-> Panic])
    /\ UNCHANGED <<arg, chunks, before, file>>

\* the command lines of encode and remove
FsCommands ==
    [command : {"encode"}, chunk_type : EncodeTypeStrs, payload : Payloads]
        \cup [command : {"remove"}, chunk_type : LookupTypeStrs, payload : {<<>>}]

\* a temp file left by an earlier run
StaleTemp == Present(<<0>>)

InitFs ==
    /\ op = "start"
    /\ \E c \in FsCommands, f \in FsCalls \cup {"none"} :
           arg = [command |-> c.command, chunk_type |-> c.chunk_type,
                  payload |-> c.payload, fails |-> f]
    /\ ret = None
    /\ chunks = <<>>
    /\ before \in InputFiles
    /\ \E t \in {Absent, StaleTemp} : file = [original |-> Present(before), temp |-> t]

NextFs ==
    \/ FsCreate
    \/ FsCopy
    \/ FsOpen
    \/ FsReadToEnd
    \/ Core
    \/ FsSetLen
    \/ FsSeek
    \/ FsWriteAll
    \/ FsRemoveFile
    \/ FsRename
    \/ MainExit
    \/ Abort

SpecFs == InitFs /\ [][NextFs]_vars

(***************************************************************************)
(* CRC-32 by its definition, one bit at a time: the register holds the     *)
(* remainder of the division by x^32 + x^26 + x^23 + x^22 + x^16 + x^12 +  *)
(* x^11 + x^10 + x^8 + x^7 + x^5 + x^4 + x^2 + x + 1, bits reflected,      *)
(* starting from all ones and inverted at the end.  Used to state the      *)
(* properties; the model computes the checksum by table.                   *)
(***************************************************************************)
PolyExponents == {26, 23, 22, 16, 12, 11, 10, 8, 7, 5, 4, 2, 1, 0}
Register == [0..31 -> {0, 1}]

RefBitStep ==
    [reg \in Register, inbit \in {0, 1} |->
        LET feedback == (reg[0] + inbit) % 2 IN
        [i \in 0..31 |->
            LET shifted == IF i = 31 THEN 0 ELSE reg[i + 1] IN
            IF feedback = 1 /\ (31 - i) \in PolyExponents
            THEN 1 - shifted ELSE shifted]]

RefByteStep ==
    [reg \in Register, byte \in Byte |->
        LET s0 == RefBitStep[reg, Bit(byte, 0)]
            s1 == RefBitStep[s0, Bit(byte, 1)]
            s2 == RefBitStep[s1, Bit(byte, 2)]
            s3 == RefBitStep[s2, Bit(byte, 3)]
            s4 == RefBitStep[s3, Bit(byte, 4)]
            s5 == RefBitStep[s4, Bit(byte, 5)]
            s6 == RefBitStep[s5, Bit(byte, 6)]
        IN  RefBitStep[s6, Bit(byte, 7)]]

RECURSIVE RefFold(_, _)
RefFold(input, n) ==
    IF n = 0 THEN [i \in 0..31 |-> 1] ELSE RefByteStep[RefFold(input, n - 1), input[n]]

\* the number whose bits 0..n-1 are f[from], ..., f[from + n - 1]
RECURSIVE BitsToNat(_, _, _)
BitsToNat(f, from, n) ==
    IF n = 0 THEN 0 ELSE f[from] + 2 * BitsToNat(f, from + 1, n - 1)

Crc32Reference(input) ==
    LET reg == RefFold(input, Len(input))
        inv == [i \in 0..31 |-> 1 - reg[i]]
    IN  <<BitsToNat(inv, 16, 16), BitsToNat(inv, 0, 16)>>

\* the u32 u is the natural number n
U32EqNat(u, n) == u[1] = n \div 65536 /\ u[2] = n % 65536

\* what a buffer declares: the length field, and where its parts lie
DeclaredLen(v) == <<(v[1] * 256) + v[2], (v[3] * 256) + v[4]>>
Framed(v) == Len(v) >= 12 /\ U32LeNat(DeclaredLen(v), Len(v) - 12)
DeclaredData(v) == SubSeq(v, 9, 8 + as_usize(DeclaredLen(v)))
DeclaredTypeAndData(v) == SubSeq(v, 5, 8 + as_usize(DeclaredLen(v)))
DeclaredCrcBytes(v) ==
    SubSeq(v, 9 + as_usize(DeclaredLen(v)), 12 + as_usize(DeclaredLen(v)))
BigEndian(b) == <<(b[1] * 256) + b[2], (b[3] * 256) + b[4]>>

(***************************************************************************)
(* Properties of Chunk (under SpecChunk).                                  *)
(***************************************************************************)
Integrity(c) ==
    /\ c.crc = Crc32Reference(c.chunk_type.chunk_type \o c.data)
    /\ U32EqNat(c.length, Len(c.data))

\* C2: every Chunk returned by Chunk::new or by a successful parse has
\* crc = CRC-32(type bytes ++ data) and length = the number of data bytes;
\* Chunk::new takes type and data from its arguments and has no error path.
\* The chunk of test_new_chunk has length 42 and crc 2882656334 (0xABD1D84E).
ChunkIntegrity ==
    /\ op = "Chunk::new" =>
          /\ ret.tag = "Value"
          /\ ret.val.chunk_type = arg.chunk_type
          /\ ret.val.data = arg.data
          /\ Integrity(ret.val)
    /\ (op = "Chunk::try_from" /\ IsOk(ret)) => Integrity(ret.val)
    /\ (op = "Chunk::new" /\ arg.chunk_type.chunk_type = RuSt /\ arg.data = TestMessage) =>
          /\ ret.val.length = <<0, 42>>
          /\ ret.val.crc = <<43985, 55374>>

\* the test chunk was constructed, serialized and parsed back
ChunkIntegrityWitness ==
    /\ op = "Chunk::try_from"
    /\ IsOk(ret)
    /\ ret.val.chunk_type.chunk_type = RuSt
    /\ ret.val.data = TestMessage

\* C3: a parse fails with InvalidCRC, returning no chunk, whenever the stored
\* crc differs from the checksum of type bytes ++ data; in particular when
\* one bit of the data region or of the crc region of a valid chunk's
\* serialization is inverted.
ChecksumEnforcement ==
    op = "Chunk::try_from" =>
        /\ (/\ Framed(arg.value)
            /\ BigEndian(DeclaredCrcBytes(arg.value))
                   # Crc32Reference(DeclaredTypeAndData(arg.value)))
              => IsErr(ret, "InvalidCRC")
        /\ (arg.mutation.kind = "flip" /\ arg.mutation.i > 8)
              => IsErr(ret, "InvalidCRC")

\* a bit of the data region of a serialized chunk was inverted
ChecksumEnforcementWitness ==
    /\ op = "Chunk::try_from"
    /\ arg.mutation.kind = "flip"
    /\ arg.mutation.i > 8
    /\ arg.mutation.i <= 8 + Len(arg.origin.data)
    /\ IsErr(ret, "InvalidCRC")

\* C10: the parse reads the length L, the type, L data bytes and the crc in
\* that order; a buffer of fewer than 12 + L bytes fails with UnexpectedEof
\* and yields no chunk, whatever its checksum would have been.
TruncatedInput ==
    op = "Chunk::try_from" =>
        /\ ~Framed(arg.value) => IsErr(ret, "UnexpectedEof")
        /\ IsOk(ret) =>
              /\ ret.val.length = DeclaredLen(arg.value)
              /\ ret.val.chunk_type.chunk_type = SubSeq(arg.value, 5, 8)
              /\ ret.val.data = DeclaredData(arg.value)
              /\ ret.val.crc = BigEndian(DeclaredCrcBytes(arg.value))

\* the serialization was cut inside its crc field
TruncatedInputWitness ==
    /\ op = "Chunk::try_from"
    /\ arg.mutation.kind = "cut"
    /\ arg.mutation.i >= 8 + Len(arg.origin.data)
    /\ Len(arg.origin.data) > 0
    /\ IsErr(ret, "UnexpectedEof")

(***************************************************************************)
(* Properties of ChunkType (under SpecType).                               *)
(***************************************************************************)
\* C4: from_str(s) fails with InvalidASCII if s has a non-ASCII character,
\* otherwise with InvalidLength if s has not exactly 4 characters, otherwise
\* with InvalidChar if the character at index 2 is a decimal digit, and
\* otherwise yields the ChunkType of the 4 bytes of s, the one try_from
\* builds from them.
FromStrOutcome ==
    op = "ChunkType::from_str" =>
        LET cs == arg.chars IN
        IF \E i \in 1..Len(cs) : cs[i] > 127 THEN IsErr(ret, "InvalidASCII")
        ELSE IF Len(cs) # 4 THEN IsErr(ret, "InvalidLength")
        ELSE IF cs[3] \in 48..57 THEN IsErr(ret, "InvalidChar")
        ELSE /\ IsOk(ret)
             /\ ret.val.chunk_type = cs
             /\ ret = ChunkType_try_from(cs)

\* "Ru1t" was rejected
FromStrOutcomeWitness ==
    /\ op = "ChunkType::from_str"
    /\ arg.chars = <<82, 117, 49, 116>>
    /\ IsErr(ret, "InvalidChar")

IsAsciiLetter(b) == b \in 65..90 \/ b \in 97..122

\* C9 as stated: each flag is decided by bit 5 of its byte alone, for every
\* byte value.
BitFlagSemantics ==
    op = "ChunkType::new" =>
        LET b == arg.b
            r == ret.val
        IN  /\ r.is_critical = (Bit(b[1], 5) = 0)
            /\ r.is_public = (Bit(b[2], 5) = 0)
            /\ r.is_reserved_bit_valid = (Bit(b[3], 5) = 0)
            /\ r.is_safe_to_copy = (Bit(b[4], 5) = 1)
            /\ r.is_valid = ((\A i \in 1..4 : b[i] < 128) /\ r.is_reserved_bit_valid)

\* C9 amended: each flag is decided by bit 5 of its byte when that byte is
\* an ASCII letter, and is false when it is not; is_valid is true exactly
\* when all 4 bytes are ASCII and is_reserved_bit_valid is true.
LetterCaseFlagSemantics ==
    op = "ChunkType::new" =>
        LET b == arg.b
            r == ret.val
        IN  /\ r.bytes = b
            /\ r.is_critical = (IsAsciiLetter(b[1]) /\ Bit(b[1], 5) = 0)
            /\ r.is_public = (IsAsciiLetter(b[2]) /\ Bit(b[2], 5) = 0)
            /\ r.is_reserved_bit_valid = (IsAsciiLetter(b[3]) /\ Bit(b[3], 5) = 0)
            /\ r.is_safe_to_copy = (IsAsciiLetter(b[4]) /\ Bit(b[4], 5) = 1)
            /\ r.is_valid = ((\A i \in 1..4 : b[i] < 128) /\ r.is_reserved_bit_valid)

\* a first byte that is no letter and has bit 5 clear ('@'): not critical
LetterCaseFlagSemanticsWitness ==
    /\ op = "ChunkType::new"
    /\ arg.b[1] = 64
    /\ ~ret.val.is_critical
    /\ ret.val.is_valid

(***************************************************************************)
(* Properties of Png (under Spec) and of the commands (under SpecCli).     *)
(***************************************************************************)
SameChunk(c, d) ==
    /\ c.length = d.length
    /\ c.chunk_type.chunk_type = d.chunk_type.chunk_type
    /\ c.data = d.data
    /\ c.crc = d.crc

\* C1: parsing signature ++ each chunk's as_bytes() succeeds and yields the
\* same chunks (length, type bytes, data, crc) in the same order; each
\* chunk c of a Png has 12 + length bytes and Chunk::try_from(c.as_bytes())
\* is c.
RoundTrip ==
    /\ op = "Png::as_bytes" =>
          /\ SubSeq(ret.val, 1, 8) = STANDARD_HEADER
          /\ SubSeq(ret.val, 9, Len(ret.val))
                = Concat([i \in 1..Len(chunks) |-> as_bytes(chunks[i])])
    /\ op = ParsedSerialized =>
          /\ IsOk(ret)
          /\ Len(ret.val) = Len(before)
          /\ \A i \in 1..Len(before) : SameChunk(ret.val[i], before[i])
          /\ chunks = ret.val
    /\ HoldsPng =>
          \A i \in 1..Len(chunks) :
              LET parsed == Chunk_try_from(as_bytes(chunks[i])) IN
              /\ Len(as_bytes(chunks[i])) = 12 + Len(chunks[i].data)
              /\ IsOk(parsed)
              /\ SameChunk(parsed.val, chunks[i])

\* a Png of a parsed chunk and an appended one was serialized and parsed
RoundTripWitness ==
    /\ op = ParsedSerialized
    /\ IsOk(ret)
    /\ Len(before) = 2
    /\ before[1] = NotUtf8Chunk
    /\ before[2].chunk_type.chunk_type = ruSt

NoChunkOfType(cs, type_bytes) ==
    \A i \in 1..Len(cs) : cs[i].chunk_type.chunk_type # type_bytes

\* C5: when a Png holds no chunk of type T, appending a chunk c of type T
\* and then remove_chunk(T) returns c and leaves the chunks the Png held
\* before the append.
AppendRemoveInverse ==
    [][ (/\ op = "Png::append_chunk"
         /\ NoChunkOfType(before, arg.chunk_type.chunk_type)
         /\ op' = "Png::remove_chunk"
         /\ arg' = arg.chunk_type.chunk_type)
        => (/\ IsOk(ret')
            /\ SameChunk(ret'.val, arg)
            /\ chunks' = before) ]_vars

\* C6: remove_chunk(T) on a Png without a chunk of type T fails with the
\* not-found error and leaves the chunks as they were; otherwise it removes
\* and returns the first chunk of type T and keeps the others in order.
NotFoundDistinction ==
    op = "Png::remove_chunk" =>
        LET matches == {i \in 1..Len(before) : before[i].chunk_type.chunk_type = arg} IN
        IF matches = {}
        THEN IsErr(ret, "ChunkNotFound") /\ chunks = before
        ELSE LET first == CHOOSE i \in matches : \A j \in matches : i <= j IN
             /\ IsOk(ret)
             /\ ret.val = before[first]
             /\ chunks = [j \in 1..(Len(before) - 1) |->
                             IF j < first THEN before[j] ELSE before[j + 1]]

\* C7: decode with type T, run on the file encode(T, m) has written, finds
\* and prints exactly m; decode with a type no chunk of the file has
\* reports that it was not found.
EncodeDecodeRoundTrip ==
    [][ (op = "encode" /\ IsOk(ret) /\ op' = "decode")
        => (/\ arg'.chunk_type = arg.chunk_type
                  => (IsOk(ret') /\ ret'.val = Some(arg.payload))
            /\ NoChunkOfType(Png_try_from(file).val, arg'.chunk_type)
                  => (IsOk(ret') /\ ret'.val = None)) ]_vars

\* C8: every operation ends with a value or a typed error: none panics.
NoAbort == ret.tag # "Panic"

(***************************************************************************)
(* What lookup, removal and the commands do when rendering a type does not *)
(* abort the process.                                                      *)
(***************************************************************************)
\* append then remove, in the runs where remove_chunk returns
AppendRemoveInverseUnlessAbort ==
    [][ (/\ op = "Png::append_chunk"
         /\ NoChunkOfType(before, arg.chunk_type.chunk_type)
         /\ op' = "Png::remove_chunk"
         /\ arg' = arg.chunk_type.chunk_type
         /\ ret'.tag # "Panic")
        => (/\ IsOk(ret')
            /\ SameChunk(ret'.val, arg)
            /\ chunks' = before) ]_vars

\* the outcome of remove_chunk, in the runs where it returns
NotFoundDistinctionUnlessAbort ==
    (op = "Png::remove_chunk" /\ ret.tag # "Panic") =>
        LET matches == {i \in 1..Len(before) : before[i].chunk_type.chunk_type = arg} IN
        IF matches = {}
        THEN IsErr(ret, "ChunkNotFound") /\ chunks = before
        ELSE LET first == CHOOSE i \in matches : \A j \in matches : i <= j IN
             /\ IsOk(ret)
             /\ ret.val = before[first]
             /\ chunks = [j \in 1..(Len(before) - 1) |->
                             IF j < first THEN before[j] ELSE before[j + 1]]

\* decode after encode, in the runs where decode returns and the file
\* encode has written holds one chunk of the type
EncodeDecodeUnlessAbort ==
    [][ (op = "encode" /\ IsOk(ret) /\ op' = "decode" /\ ret'.tag # "Panic")
        => LET cs == Png_try_from(file).val
               n == Cardinality({i \in 1..Len(cs) :
                        cs[i].chunk_type.chunk_type = arg'.chunk_type})
           IN  /\ (arg'.chunk_type = arg.chunk_type /\ n = 1)
                     => (IsOk(ret') /\ ret'.val = Some(arg.payload))
               /\ n = 0 => (IsOk(ret') /\ ret'.val = None) ]_vars

(***************************************************************************)
(* Properties of the file swap (under SpecFs).                             *)
(***************************************************************************)
\* the calls of encode and remove that come before the swap
BeforeSwap ==
    {"File::create", "fs::copy", "open", "read_to_end", "core", "set_len",
     "seek", "write_all"}

\* the command ended because parsing the file, building the chunk type or
\* removing by type failed
CoreFailed ==
    /\ op = "exit"
    /\ \/ ret.val.command.tag = "Panic"
       \/ ret.val.command.tag = "Err" /\ ret.val.command # IoError

\* C11: when parsing the file, constructing the chunk type or removing by
\* type fails in encode or remove, the file at the original path holds at
\* exit the bytes it held at the start; up to the swap every read and write
\* goes to the temp file and the original is as it was.
OriginalPreserved ==
    /\ op \in BeforeSwap => file.original = Present(before)
    /\ CoreFailed => file.original = Present(before)

\* remove did not find the type: the original is whole, the temp file gone
OriginalPreservedWitness ==
    /\ op = "exit"
    /\ arg.command = "remove"
    /\ ret.val.command = Err("ChunkNotFound")
    /\ file.original = Present(before)
    /\ ~file.temp.exists

\* C12: whichever one file-system call fails in encode or remove, at exit
\* the file at the original path exists and holds the whole original bytes
\* or the whole new serialization.
NoImageLoss ==
    op = "exit" =>
        /\ file.original.exists
        /\ \/ file.original.bytes = before
           \/ /\ IsOk(ret.val.command)
              /\ file.original.bytes = Png_as_bytes(chunks)

\* the same for every call but rename: the original file is lost only when
\* rename fails after remove_file has deleted it
NoImageLossUnlessRenameFails ==
    (op = "exit" /\ ~Fails("rename")) =>
        /\ file.original.exists
        /\ IF IsOk(ret.val.command)
           THEN file.original.bytes = Png_as_bytes(chunks)
           ELSE file.original.bytes = before

\* rename failed: no file at the original path, none at the temp path
ImageLost ==
    /\ op = "exit"
    /\ Fails("rename")
    /\ ~file.original.exists
    /\ ~file.temp.exists

====
